---- MODULE Spec2Model ----
(***************************************************************************)
(* pyrtools/convolutions.py: corrDn, upConv and pointOp, the Python        *)
(* functions that prepare numpy arrays and hand them to the compiled       *)
(* convolution kernel (internal_reduce, internal_wrap_reduce,              *)
(* internal_expand, internal_wrap_expand, internal_pointop).               *)
(*                                                                         *)
(* A numpy array is a record [shape, data]: shape is <<n>> or <<h, w>>,    *)
(* data the row-major (C order) buffer the kernel receives a pointer to.   *)
(* Doubles are modelled by integers (exact arithmetic).  Python tuples     *)
(* (y, x) are TLA+ tuples: t[1] is Python's t[0], t[2] is Python's t[1].   *)
(***************************************************************************)
EXTENDS Integers, Sequences, FiniteSets, TLC

\* ------------------------------------------------------------------ bounds
MaxVal == 1
MaxStart == 1
MaxStep == 2
MaxStop == 1

\* ------------------------------------------------------------ numpy arrays
\* Python's None, for the optional arguments stop and result.
NoArray == [shape |-> <<>>, data |-> <<>>]
NoStop == <<>>

Prod(shape) == IF Len(shape) = 1 THEN shape[1] ELSE shape[1] * shape[2]

\* np.zeros(shape)
Zeros(shape) == [shape |-> shape, data |-> [p \in 1..Prod(shape) |-> 0]]

\* a[i, j] of a 2-D array (0-based indices)
At(a, i, j) == a.data[i * a.shape[2] + j + 1]

\* a.T of a 2-D array: shape reversed, T[j, i] = a[i, j]
Transpose(a) ==
    [shape |-> <<a.shape[2], a.shape[1]>>,
     data |-> [p \in 1..Prod(a.shape) |->
                 At(a, (p - 1) % a.shape[1], (p - 1) \div a.shape[1])]]

\* np.reshape(a, shape): the same buffer under another shape
Reshape(a, shape) == [shape |-> shape, data |-> a.data]

\* np.append(a, 0.0): the flattened array with one more element
AppendZero(a) == [shape |-> <<Len(a.data) + 1>>, data |-> Append(a.data, 0)]

RECURSIVE SumTo(_, _)
\* f[0] + ... + f[n-1]
SumTo(f, n) == IF n = 0 THEN 0 ELSE f[n - 1] + SumTo(f, n - 1)

\* np.dot of two flattened arrays of the same size
Dot(a, b) == SumTo([k \in 0..(Len(a.data) - 1) |-> a.data[k + 1] * b.data[k + 1]],
                   Len(a.data))

\* ------------------------------------------------- the compiled kernel
\* The kernel's C sources are not part of the Python file; these definitions
\* follow the kernel's description (boundary mapper, window iterator, the two
\* stencil operators and the table lookup) and the argument lists of the
\* ctypes calls.

\* The filter tap aligned with the current coordinate: floor(size / 2).
Origin(n) == n \div 2

\* reflect1: mirror about the edge sample without repeating it.
Mirror1(idx, extent) ==
    IF extent = 1 THEN 0
    ELSE LET m == idx % (2 * (extent - 1))
         IN IF m < extent THEN m ELSE 2 * (extent - 1) - m

\* reflect2: mirror, the edge sample repeated once (period 2 * extent).
Mirror2(idx, extent) ==
    LET m == idx % (2 * extent)
    IN IF m < extent THEN m ELSE 2 * extent - 1 - m

\* BoundaryIndexMapper: the source index i, the sign multiplier s (0: the tap
\* contributes nothing) and skip (dont-compute: the whole sample is skipped).
Resolve(idx, extent, mode) ==
    IF idx >= 0 /\ idx < extent THEN [i |-> idx, s |-> 1, skip |-> FALSE]
    ELSE CASE mode = "circular" -> [i |-> idx % extent, s |-> 1, skip |-> FALSE]
           [] mode = "repeat" ->
                [i |-> IF idx < 0 THEN 0 ELSE extent - 1, s |-> 1, skip |-> FALSE]
           [] mode = "reflect1" -> [i |-> Mirror1(idx, extent), s |-> 1, skip |-> FALSE]
           [] mode = "reflect2" -> [i |-> Mirror2(idx, extent), s |-> 1, skip |-> FALSE]
           [] mode = "extend" -> [i |-> Mirror1(idx, extent), s |-> -1, skip |-> FALSE]
           [] mode = "zero" -> [i |-> 0, s |-> 0, skip |-> FALSE]
           [] OTHER -> [i |-> 0, s |-> 0, skip |-> TRUE]

\* WindowIterator: the number of coordinates start, start+step, ... below stop.
WindowCount(start, step, stop) ==
    Cardinality({c \in start..(stop - 1) : (c - start) % step = 0})

\* One neighbourhood of the generic correlation, centred on (cy, cx).
GatherCell(image, x_dim, y_dim, filt, x_fdim, y_fdim, cy, cx, edges) ==
    LET ry(t) == Resolve(cy + (t \div x_fdim) - Origin(y_fdim), y_dim, edges)
        rx(t) == Resolve(cx + (t % x_fdim) - Origin(x_fdim), x_dim, edges)
        n == x_fdim * y_fdim
    IN [skip |-> \E t \in 0..(n - 1) : ry(t).skip \/ rx(t).skip,
        val |-> SumTo([t \in 0..(n - 1) |->
                         ry(t).s * rx(t).s * image[ry(t).i * x_dim + rx(t).i + 1]
                         * filt[t + 1]], n)]

\* internal_reduce: one output per window coordinate, written (not added) at
\* the coordinate's rank in the strided sequence; a skipped sample keeps the
\* buffer's value.
internal_reduce(image, x_dim, y_dim, filt, x_fdim, y_fdim, x_start, x_step, x_stop, y_start, y_step, y_stop, result, edges) ==
    LET nx == WindowCount(x_start, x_step, x_stop)
        ny == WindowCount(y_start, y_step, y_stop)
        g(p) == GatherCell(image, x_dim, y_dim, filt, x_fdim, y_fdim,
                           y_start + ((p - 1) \div nx) * y_step,
                           x_start + ((p - 1) % nx) * x_step, edges)
    IN [p \in 1..Len(result) |->
          IF p > nx * ny \/ g(p).skip THEN result[p] ELSE g(p).val]

\* internal_wrap_reduce: the circular fast path, modular arithmetic over the
\* whole neighbourhood.
internal_wrap_reduce(image, x_dim, y_dim, filt, x_fdim, y_fdim, x_start, x_step, x_stop, y_start, y_step, y_stop, result) ==
    LET nx == WindowCount(x_start, x_step, x_stop)
        ny == WindowCount(y_start, y_step, y_stop)
        n == x_fdim * y_fdim
        v(p) == SumTo([t \in 0..(n - 1) |->
                  image[((y_start + ((p - 1) \div nx) * y_step + (t \div x_fdim)
                          - Origin(y_fdim)) % y_dim) * x_dim
                        + ((x_start + ((p - 1) % nx) * x_step + (t % x_fdim)
                            - Origin(x_fdim)) % x_dim) + 1]
                  * filt[t + 1]], n)
    IN [p \in 1..Len(result) |-> IF p > nx * ny THEN result[p] ELSE v(p)]

\* What the input sample of rank k (row-major over the window) adds to the
\* output coordinate (ty, tx) in the generic scatter.
ScatterTerm(image, filt, x_fdim, y_fdim, cy, cx, k, ty, tx, x_rdim, y_rdim, edges) ==
    LET ry(t) == Resolve(cy + (t \div x_fdim) - Origin(y_fdim), y_rdim, edges)
        rx(t) == Resolve(cx + (t % x_fdim) - Origin(x_fdim), x_rdim, edges)
        n == x_fdim * y_fdim
    IN IF \E t \in 0..(n - 1) : ry(t).skip \/ rx(t).skip THEN 0
       ELSE SumTo([t \in 0..(n - 1) |->
                     IF ry(t).i = ty /\ rx(t).i = tx
                     THEN ry(t).s * rx(t).s * image[k + 1] * filt[t + 1]
                     ELSE 0], n)

\* internal_expand: each input sample sits at a window coordinate of the
\* output grid and is scatter-added, weighted by the filter, around it; the
\* output is row-major, x_rdim columns by y_rdim rows.
internal_expand(image, filt, x_fdim, y_fdim, x_start, x_step, x_stop, y_start, y_step, y_stop, result, x_rdim, y_rdim, edges) ==
    LET nx == WindowCount(x_start, x_step, x_stop)
        ny == WindowCount(y_start, y_step, y_stop)
        add(p) == SumTo([k \in 0..(nx * ny - 1) |->
                    ScatterTerm(image, filt, x_fdim, y_fdim,
                                y_start + (k \div nx) * y_step,
                                x_start + (k % nx) * x_step, k,
                                (p - 1) \div x_rdim, (p - 1) % x_rdim,
                                x_rdim, y_rdim, edges)], nx * ny)
    IN [p \in 1..Len(result) |->
          IF p > x_rdim * y_rdim THEN result[p] ELSE result[p] + add(p)]

\* internal_wrap_expand: the circular fast path of the scatter; its output
\* is column-major relative to internal_expand (the cell (ty, tx) is at
\* tx * y_rdim + ty), which the caller transposes.
internal_wrap_expand(image, filt, x_fdim, y_fdim, x_start, x_step, x_stop, y_start, y_step, y_stop, result, x_rdim, y_rdim) ==
    LET nx == WindowCount(x_start, x_step, x_stop)
        ny == WindowCount(y_start, y_step, y_stop)
        n == x_fdim * y_fdim
        term(k, ty, tx) == SumTo([t \in 0..(n - 1) |->
            IF /\ (y_start + (k \div nx) * y_step + (t \div x_fdim)
                   - Origin(y_fdim)) % y_rdim = ty
               /\ (x_start + (k % nx) * x_step + (t % x_fdim)
                   - Origin(x_fdim)) % x_rdim = tx
            THEN image[k + 1] * filt[t + 1] ELSE 0], n)
        add(p) == SumTo([k \in 0..(nx * ny - 1) |->
                    term(k, (p - 1) % y_rdim, (p - 1) \div y_rdim)], nx * ny)
    IN [p \in 1..Len(result) |->
          IF p > x_rdim * y_rdim THEN result[p] ELSE result[p] + add(p)]
\* The segment of an n-sample table used for the abscissa offset d = v - origin:
\* the bracketing one inside the table's domain, the first or the last outside.
Segment(d, increment, n) ==
    IF d < 0 THEN 0
    ELSE IF d \div increment > n - 2 THEN n - 2
    ELSE d \div increment

\* internal_pointop: res[i] for the first `size` cells, by linear interpolation
\* in, or extrapolation from, the equi-spaced table; warned tells whether the
\* extrapolation warning was given.  The inputs are drawn so that every
\* interpolated value is an integer, and the division is exact.
internal_pointop(im, res, size, lut, lutsize, origin, increment, warnings) ==
    LET seg(i) == Segment(im[i] - origin, increment, lutsize)
        val(i) == lut[seg(i) + 1]
                  + ((im[i] - origin - seg(i) * increment)
                     * (lut[seg(i) + 2] - lut[seg(i) + 1])) \div increment
        out(i) == im[i] - origin < 0 \/ im[i] - origin > (lutsize - 1) * increment
    IN [res |-> [i \in 1..Len(res) |-> IF i <= size THEN val(i) ELSE res[i]],
        warned |-> warnings /\ \E i \in 1..size : out(i)]

\* ------------------------------------------------------ convolutions.py
\* The seven boundary modes the docstrings list.
Modes == {"circular", "reflect1", "reflect2", "repeat", "zero", "extend", "dont-compute"}

\* A faulty variant of CopyOf: the function works on the caller's own array object.
NoCopy(a) == [arr |-> a, shared |-> TRUE]

\* a.copy(): the function works on a new array object, not on the caller's.
CopyOf(a) == [arr |-> a, shared |-> FALSE]

\* The caller's array once the call is over: what the kernel left in it when
\* the function worked on the caller's own object, else what it was.
AfterCall(orig, work, final) == IF work.shared THEN final ELSE orig

\* if len(filt.shape) == 1: filt = np.reshape(filt, (1, len(filt)))
As2D(filt) ==
    IF Len(filt.shape) = 1 THEN Reshape(filt, <<1, filt.shape[1]>>) ELSE filt

\* A faulty variant of RangeLen: the quotient rounded down, a last partial stride lost.
RangeLenFloor(start, stop, step) ==
    IF start < stop THEN (stop - start) \div step ELSE 0

\* len(list(range(start, stop, step))), step # 0
RangeLen(start, stop, step) ==
    IF step > 0
    THEN (IF start < stop THEN ((stop - start - 1) \div step) + 1 ELSE 0)
    ELSE (IF start > stop THEN ((start - stop - 1) \div (0 - step)) + 1 ELSE 0)

\* corrDn's stop: the caller's, or the image extent.
CorrDnStop(image, stop) ==
    IF stop = NoStop THEN <<image.shape[1], image.shape[2]>> ELSE stop

\* corrDn's result buffer: np.zeros((rxsz, rysz)), or a copy of the caller's.
CorrDnAlloc(step, start, stop, result) ==
    IF result = NoArray
    THEN CopyOf(Zeros(<<RangeLen(start[1], stop[1], step[1]),
                        RangeLen(start[2], stop[2], step[2])>>))
    ELSE CopyOf(result)

\* The kernel call of corrDn: the buffer as the kernel leaves it.
CorrDnKernel(image, filt, edges, step, start, stop, buf) ==
    IF edges = "circular"
    THEN internal_wrap_reduce(image.data, image.shape[2], image.shape[1],
                              filt.data, filt.shape[2], filt.shape[1],
                              start[2], step[2], stop[2], start[1], step[1],
                              stop[1], buf.data)
    ELSE internal_reduce(image.data, image.shape[2], image.shape[1],
                         filt.data, filt.shape[2], filt.shape[1],
                         start[2], step[2], stop[2], start[1], step[1],
                         stop[1], buf.data, edges)

\* corrDn(image, filt, edges, step, start, stop, result): what the caller gets
\* (status, grid), what the function did on the way (alloc: the buffer before
\* the kernel ran, kfilt: the filter given to the kernel, stop: the stop
\* used), and the caller's three arrays after the call.
corrDn(image, filt, edges, step, start, stop, result) ==
    LET im == CopyOf(image)
        fc == CopyOf(filt)
        f2 == As2D(fc.arr)
        stp == CorrDnStop(im.arr, stop)
        raised == result = NoArray /\ (step[1] = 0 \/ step[2] = 0)
        buf == CorrDnAlloc(step, start, stp, result)
        out == [shape |-> buf.arr.shape,
                data |-> CorrDnKernel(im.arr, f2, edges, step, start, stp, buf.arr)]
    IN IF raised
       THEN [status |-> "ValueError", grid |-> NoArray, alloc |-> NoArray,
             kfilt |-> f2, stop |-> stp,
             image |-> image, filt |-> filt, result |-> result]
       ELSE [status |-> "ok", grid |-> out, alloc |-> buf.arr,
             kfilt |-> f2, stop |-> stp,
             image |-> AfterCall(image, im, im.arr),
             filt |-> AfterCall(filt, fc, fc.arr),
             result |-> IF result = NoArray THEN result
                        ELSE AfterCall(result, buf, out)]

\* The test that guards upConv's even-sized-filter handling.
EvenFilterTest(edges, filt) ==
    /\ (edges # "reflect1" \/ edges # "extend" \/ edges # "repeat")
    /\ (filt.shape[1] % 2 = 0 \/ filt.shape[2] % 2 = 0)

\* A faulty variant of PadFilter: the padded column comes back as a row.
PadFilterAsRow(filt) ==
    IF filt.shape[2] = 1 \/ filt.shape[1] = 1
    THEN [status |-> "ok",
          filt |-> Reshape(AppendZero(filt), <<1, Len(filt.data) + 1>>)]
    ELSE [status |-> "Exception", filt |-> filt]

\* The handling itself: a column or a row gets one trailing zero, anything
\* else raises Exception('Even sized 2D filters not yet supported by upConv.').
PadFilter(filt) ==
    IF filt.shape[2] = 1
    THEN [status |-> "ok",
          filt |-> Reshape(AppendZero(filt), <<Len(filt.data) + 1, 1>>)]
    ELSE IF filt.shape[1] = 1
    THEN [status |-> "ok",
          filt |-> Reshape(AppendZero(filt), <<1, Len(filt.data) + 1>>)]
    ELSE [status |-> "Exception", filt |-> filt]

\* upConv's stop: the caller's, else step * image extent without a result
\* buffer, else the buffer's shape.
UpConvStop(image, step, stop, result) ==
    IF stop = NoStop /\ result = NoArray
    THEN <<image.shape[1] * step[1], image.shape[2] * step[2]>>
    ELSE IF stop = NoStop THEN <<result.shape[1], result.shape[2]>>
    ELSE stop

\* upConv's result buffer: np.zeros((stop[1], stop[0])), or a copy.
UpConvAlloc(stop, result) ==
    IF result = NoArray THEN CopyOf(Zeros(<<stop[2], stop[1]>>)) ELSE CopyOf(result)

\* A faulty variant of UpConvKernel: start given to the kernel as (x, y) = (start[0],
\* start[1]) instead of (start[1], start[0]).
UpConvKernelSwapped(image, filt, edges, step, start, stop, buf) ==
    IF edges = "circular"
    THEN internal_wrap_expand(image.data, filt.data, filt.shape[2], filt.shape[1],
                              start[1], step[2], stop[2], start[2], step[1],
                              stop[1], buf.data, stop[2], stop[1])
    ELSE internal_expand(image.data, filt.data, filt.shape[2], filt.shape[1],
                         start[1], step[2], stop[2], start[2], step[1],
                         stop[1], buf.data, stop[2], stop[1], edges)

\* The kernel call of upConv: the buffer as the kernel leaves it.
UpConvKernel(image, filt, edges, step, start, stop, buf) ==
    IF edges = "circular"
    THEN internal_wrap_expand(image.data, filt.data, filt.shape[2], filt.shape[1],
                              start[2], step[2], stop[2], start[1], step[1],
                              stop[1], buf.data, stop[2], stop[1])
    ELSE internal_expand(image.data, filt.data, filt.shape[2], filt.shape[1],
                         start[2], step[2], stop[2], start[1], step[1],
                         stop[1], buf.data, stop[2], stop[1], edges)

\* What upConv returns from the buffer: result.T on the circular path, else
\* np.reshape(result, stop), which raises ValueError when the sizes differ.
UpConvReturn(edges, buf, stop) ==
    IF edges = "circular" THEN [status |-> "ok", grid |-> Transpose(buf)]
    ELSE IF Prod(stop) # Len(buf.data) THEN [status |-> "ValueError", grid |-> NoArray]
    ELSE [status |-> "ok", grid |-> Reshape(buf, stop)]

\* upConv(image, filt, edges, step, start, stop, result), as corrDn above.
upConv(image, filt, edges, step, start, stop, result) ==
    LET im == CopyOf(image)
        fc == CopyOf(filt)
        f2 == As2D(fc.arr)
        pad == IF EvenFilterTest(edges, f2) THEN PadFilter(f2)
               ELSE [status |-> "ok", filt |-> f2]
        stp == UpConvStop(im.arr, step, stop, result)
        buf == UpConvAlloc(stp, result)
        out == [shape |-> buf.arr.shape,
                data |-> UpConvKernel(im.arr, pad.filt, edges, step, start, stp, buf.arr)]
        r == UpConvReturn(edges, out, stp)
    IN IF pad.status # "ok"
       THEN [status |-> pad.status, grid |-> NoArray, alloc |-> NoArray,
             kfilt |-> f2, stop |-> NoStop,
             image |-> image, filt |-> filt, result |-> result]
       ELSE [status |-> r.status, grid |-> r.grid, alloc |-> buf.arr,
             kfilt |-> pad.filt, stop |-> stp,
             image |-> AfterCall(image, im, im.arr),
             filt |-> AfterCall(filt, fc, fc.arr),
             result |-> IF result = NoArray THEN result
                        ELSE AfterCall(result, buf, out)]
\* A faulty variant of PointOpSize: the number of rows instead of the number of cells.
PointOpSizeRows(image) == image.shape[1]

\* The number of cells pointOp hands to the kernel.
PointOpSize(image) == image.shape[1] * image.shape[2]

\* pointOp(image, lut, origin, increment, warnings): the returned grid, and
\* whether the kernel warned of an extrapolation.
pointOp(image, lut, origin, increment, warnings) ==
    LET res == Zeros(<<image.shape[1], image.shape[2]>>)
        k == internal_pointop(image.data, res.data, PointOpSize(image), lut.data,
                              lut.shape[1], origin, increment, warnings)
    IN [grid |-> [shape |-> res.shape, data |-> k.res], warned |-> k.warned]

\* --------------------------------------------------------------- inputs
\* The grid of a shape whose cell p (row-major, from 1) holds p.
Ramp(shape) == [shape |-> shape, data |-> [p \in 1..Prod(shape) |-> p]]

\* The grid of a shape that holds v in cell q and 0 elsewhere.
Impulse(shape, q, v) ==
    [shape |-> shape, data |-> [p \in 1..Prod(shape) |-> IF p = q THEN v ELSE 0]]

Ramps(shapes) == {Ramp(sh) : sh \in shapes}

Impulses(shape) == {Impulse(shape, q, v) : q \in 1..Prod(shape), v \in 1..MaxVal}

ImageShapes == {<<1, 3>>, <<2, 2>>}
FilterShapes == {<<2>>, <<1, 2>>, <<1, 3>>, <<2, 1>>, <<2, 2>>, <<3, 2>>}
BufferShapes == {<<2, 2>>, <<1, 2>>}

Starts == (0..MaxStart) \X (0..MaxStart)
Steps == ((1..MaxStep) \X (1..MaxStep)) \cup {<<0, 1>>, <<1, 0>>}
Stops == {NoStop} \cup ((0..MaxStop) \X (0..MaxStop))

\* The docstrings' WARNING: an image and a filter that are both 1-D must be
\* 1-D in the same dimension, or the kernel may crash.
SameOrientation(im, f) ==
    /\ ~(im.shape[1] = 1 /\ As2D(f).shape[2] = 1 /\ As2D(f).shape[1] > 1)
    /\ ~(im.shape[2] = 1 /\ As2D(f).shape[1] = 1 /\ As2D(f).shape[2] > 1)

\* The calls whose kernel behaviour is defined: the orientations agree, the
\* step is positive once the kernel is reached, and no access goes past the
\* end of a buffer.
CorrDnDefined(im, f, step, start, stop, res) ==
    \/ res = NoArray /\ (step[1] = 0 \/ step[2] = 0)
    \/ /\ SameOrientation(im, f)
       /\ step[1] >= 1 /\ step[2] >= 1
       /\ res # NoArray =>
            LET stp == CorrDnStop(im, stop)
            IN Len(res.data) >= WindowCount(start[1], step[1], stp[1])
                                * WindowCount(start[2], step[2], stp[2])

UpConvDefined(im, f, step, start, stop, res) ==
    /\ SameOrientation(im, f)
    /\ step[1] >= 1 /\ step[2] >= 1
    /\ LET stp == UpConvStop(im, step, stop, res)
       IN /\ WindowCount(start[1], step[1], stp[1])
             * WindowCount(start[2], step[2], stp[2]) <= Len(im.data)
          /\ res # NoArray => Len(res.data) >= Prod(stp)

\* ---------------------------------------------------------------- state
VARIABLES
    image,   \* the caller's image array
    filt,    \* the caller's filter array
    result,  \* the caller's result array, or NoArray
    y,       \* the grid the caller gives upConv in the duality check
    pc,      \* "ready": before a call; "done": a call has returned
    call,    \* the last call's operation, mode and window
    ret,     \* what the last call gave back
    up,      \* what upConv gave back in the duality check
    table,   \* pointOp's lookup table, origin, increment and warning flag
    pt       \* what pointOp gave back

vars == <<image, filt, result, y, pc, call, ret, up, table, pt>>

NoTable == [lut |-> NoArray, origin |-> 0, increment |-> 1, warnings |-> FALSE]

NoPt == [grid |-> NoArray, warned |-> FALSE]

NoCall == [op |-> "none", edges |-> "none", step |-> <<>>, start |-> <<>>, stop |-> NoStop]

NoRet == [status |-> "none", grid |-> NoArray, alloc |-> NoArray, kfilt |-> NoArray,
          stop |-> NoStop]

\* What a call gave back, without the caller's arrays.
Outcome(r) == [status |-> r.status, grid |-> r.grid, alloc |-> r.alloc,
               kfilt |-> r.kfilt, stop |-> r.stop]

Init ==
    /\ image \in Ramps(ImageShapes)
    /\ filt \in Ramps(FilterShapes)
    /\ result \in {NoArray} \cup Ramps(BufferShapes)
    /\ pc = "ready"
    /\ call = NoCall
    /\ ret = NoRet
    /\ y = NoArray
    /\ up = NoRet
    /\ table = NoTable
    /\ pt = NoPt

\* The caller calls corrDn on its arrays.
CorrDnCall ==
    /\ pc = "ready"
    /\ \E edges \in Modes, step \in Steps, start \in Starts, stop \in Stops :
         /\ CorrDnDefined(image, filt, step, start, stop, result)
         /\ LET r == corrDn(image, filt, edges, step, start, stop, result)
            IN /\ ret' = Outcome(r)
               /\ image' = r.image
               /\ filt' = r.filt
               /\ result' = r.result
         /\ call' = [op |-> "corrDn", edges |-> edges, step |-> step,
                     start |-> start, stop |-> stop]
    /\ pc' = "done"
    /\ UNCHANGED <<y, up, table, pt>>

\* The caller calls upConv on its arrays.
UpConvCall ==
    /\ pc = "ready"
    /\ \E edges \in Modes, step \in Steps, start \in Starts, stop \in Stops :
         /\ UpConvDefined(image, filt, step, start, stop, result)
         /\ LET r == upConv(image, filt, edges, step, start, stop, result)
            IN /\ ret' = Outcome(r)
               /\ image' = r.image
               /\ filt' = r.filt
               /\ result' = r.result
         /\ call' = [op |-> "upConv", edges |-> edges, step |-> step,
                     start |-> start, stop |-> stop]
    /\ pc' = "done"
    /\ UNCHANGED <<y, up, table, pt>>

\* The caller drops the returned grid and is ready for another call.
Return ==
    /\ pc = "done"
    /\ pc' = "ready"
    /\ call' = NoCall
    /\ ret' = NoRet
    /\ UNCHANGED <<image, filt, result, y, up, table, pt>>

Next == CorrDnCall \/ UpConvCall \/ Return

Spec == Init /\ [][Next]_vars

\* ------------------------------------------------- the duality check
\* A caller that computes corrDn(x, f) over a window and then upConv(y, f)
\* with the same mode, start and step and stop = the shape of x, for a grid y
\* of the shape corrDn returned.
AdjImageShapes == {<<1, 3>>, <<2, 2>>, <<3, 2>>}
AdjFilterShapes == {<<2>>, <<1, 2>>, <<1, 3>>, <<2, 1>>, <<2, 2>>, <<3, 1>>, <<3, 2>>}
AdjModes == {"reflect1", "zero", "circular"}

\* f is no larger than x.
Fits(f, x) == As2D(f).shape[1] <= x.shape[1] /\ As2D(f).shape[2] <= x.shape[2]

InitAdj ==
    /\ image \in UNION {Impulses(sh) \cup {Ramp(sh)} : sh \in AdjImageShapes}
    /\ filt \in {f \in Ramps(AdjFilterShapes) : Fits(f, image)}
    /\ result = NoArray
    /\ y = NoArray
    /\ pc = "ready"
    /\ call \in {[op |-> "corrDn", edges |-> e, step |-> sp, start |-> st, stop |-> NoStop] :
                   e \in AdjModes, sp \in (1..MaxStep) \X (1..MaxStep), st \in Starts}
    /\ ret = NoRet
    /\ up = NoRet
    /\ table = NoTable
    /\ pt = NoPt

AdjCorrDn ==
    /\ pc = "ready"
    /\ LET r == corrDn(image, filt, call.edges, call.step, call.start, call.stop, result)
       IN /\ ret' = Outcome(r)
          /\ image' = r.image
          /\ filt' = r.filt
          /\ result' = r.result
    /\ pc' = "down"
    /\ UNCHANGED <<y, call, up, table, pt>>

AdjUpConv ==
    /\ pc = "down"
    /\ ret.status = "ok"
    /\ \E yy \in Impulses(ret.grid.shape) \cup {Ramp(ret.grid.shape)} :
         /\ y' = yy
         /\ up' = Outcome(upConv(yy, filt, call.edges, call.step, call.start,
                                 <<image.shape[1], image.shape[2]>>, NoArray))
    /\ pc' = "dual"
    /\ UNCHANGED <<image, filt, result, call, ret, table, pt>>

NextAdj == AdjCorrDn \/ AdjUpConv

SpecAdj == InitAdj /\ [][NextAdj]_vars

OneDimOrOdd(f) ==
    \/ As2D(f).shape[1] = 1
    \/ As2D(f).shape[2] = 1
    \/ (As2D(f).shape[1] % 2 = 1 /\ As2D(f).shape[2] % 2 = 1)

PtInputs == (0 - 2)..6
PtShapes == {<<1, 2>>, <<2, 1>>}
Increments == {1, 2}
Origins == {0, 1}

Vector(seq) == [shape |-> <<Len(seq)>>, data |-> seq]

\* The tables for an origin and an increment: increment * a for the
\* sequences a of two or three values in 0..MaxVal, the table of the
\* identity, and [0, 1, 2, 3].
Tables(origin, increment) ==
    {Vector([i \in 1..Len(a) |-> increment * a[i]]) :
        a \in UNION {[1..m -> 0..MaxVal] : m \in {2, 3}}}
    \cup {Vector([i \in 1..n |-> origin + (i - 1) * increment]) : n \in 2..4}
    \cup {Vector(<<0, 1, 2, 3>>)}

InitPt ==
    /\ image \in UNION {[shape : {sh}, data : [1..2 -> PtInputs]] : sh \in PtShapes}
    /\ table \in UNION {[lut : Tables(o, inc), origin : {o}, increment : {inc},
                         warnings : BOOLEAN] : o \in Origins, inc \in Increments}
    /\ (table.increment = 1 \/ table.lut # Vector(<<0, 1, 2, 3>>))
    /\ filt = NoArray
    /\ result = NoArray
    /\ y = NoArray
    /\ pc = "ready"
    /\ call = NoCall
    /\ ret = NoRet
    /\ up = NoRet
    /\ pt = NoPt

\* The caller calls pointOp on its image and table.
PointOpCall ==
    /\ pc = "ready"
    /\ pt' = pointOp(image, table.lut, table.origin, table.increment, table.warnings)
    /\ pc' = "done"
    /\ UNCHANGED <<image, filt, result, y, call, ret, up, table>>

PointOpReturn ==
    /\ pc = "done"
    /\ pt' = NoPt
    /\ pc' = "ready"
    /\ UNCHANGED <<image, filt, result, y, call, ret, up, table>>

NextPt == PointOpCall \/ PointOpReturn

SpecPt == InitPt /\ [][NextPt]_vars

\* ------------------------------------------------- properties of Spec
\* The filter's rows and columns once a 1-D filter is read as a single row.
FRows == IF Len(filt.shape) = 1 THEN 1 ELSE filt.shape[1]
FCols == IF Len(filt.shape) = 1 THEN filt.shape[1] ELSE filt.shape[2]

\* The stop a corrDn call uses: the caller's, or the image extent.
DnStop == IF call.stop = NoStop THEN <<image.shape[1], image.shape[2]>> ELSE call.stop

\* The stop an upConv call uses.
UpStop ==
    IF call.stop # NoStop THEN call.stop
    ELSE IF result = NoArray
    THEN <<call.step[1] * image.shape[1], call.step[2] * image.shape[2]>>
    ELSE <<result.shape[1], result.shape[2]>>

CeilDiv(a, b) == 0 - ((0 - a) \div b)

\* C2: corrDn with a filter higher or wider than the image reports an error
\* and returns no grid, in every mode.
C2_ShapeRejection ==
    (pc = "done" /\ call.op = "corrDn"
     /\ (FRows > image.shape[1] \/ FCols > image.shape[2])) =>
        ret.status # "ok" /\ ret.grid = NoArray

\* C3: upConv rejects a filter of several rows and several columns with an
\* even size; pads a single-row or single-column filter of even length with
\* exactly one trailing zero, keeping its orientation, and goes on; and
\* passes a filter of odd sizes on unchanged.
C3_EvenFilter ==
    (pc = "done" /\ call.op = "upConv") =>
        /\ (FRows > 1 /\ FCols > 1 /\ (FRows % 2 = 0 \/ FCols % 2 = 0)) =>
              ret.status = "Exception" /\ ret.grid = NoArray
        /\ (FRows = 1 /\ FCols % 2 = 0) =>
              /\ ret.status # "Exception"
              /\ ret.kfilt = [shape |-> <<1, FCols + 1>>, data |-> filt.data \o <<0>>]
        /\ (FCols = 1 /\ FRows % 2 = 0) =>
              /\ ret.status # "Exception"
              /\ ret.kfilt = [shape |-> <<FRows + 1, 1>>, data |-> filt.data \o <<0>>]
        /\ (FRows % 2 = 1 /\ FCols % 2 = 1) =>
              /\ ret.status # "Exception"
              /\ ret.kfilt = [shape |-> <<FRows, FCols>>, data |-> filt.data]
        /\ (ret.status # "Exception" /\ result = NoArray) => ret.status = "ok"

C3_Witness ==
    /\ pc = "done"
    /\ call.op = "upConv"
    /\ filt.shape = <<1, 2>>
    /\ ret.status = "ok"
    /\ ret.kfilt.shape = <<1, 3>>
    /\ ret.kfilt.data[3] = 0

\* C4: with a result buffer B supplied, each cell of the grid upConv returns
\* is the cell of B plus the cell of the grid upConv returns for the same
\* arguments and a fresh buffer of the same extent.
C4_Accumulate ==
    (pc = "done" /\ call.op = "upConv" /\ result # NoArray /\ ret.status = "ok") =>
        LET fresh == upConv(image, filt, call.edges, call.step, call.start,
                            ret.stop, NoArray).grid
        IN /\ ret.grid.shape = result.shape
           /\ fresh.shape = result.shape
           /\ \A q \in 1..Len(result.data) :
                ret.grid.data[q] = result.data[q] + fresh.data[q]

\* C5: without a result buffer and for a window of positive steps and
\* non-negative extent, corrDn allocates a grid of zeros with
\* ceil((stop - start) / step) samples along each axis, the number of
\* coordinates start, start + step, ... below stop, and returns a grid of
\* that shape.
C5_AllocatedExtent ==
    (/\ pc = "done" /\ call.op = "corrDn" /\ result = NoArray
     /\ \A i \in 1..2 : call.step[i] >= 1 /\ DnStop[i] >= call.start[i]) =>
        /\ ret.status = "ok"
        /\ \A i \in 1..2 :
             /\ ret.alloc.shape[i] = CeilDiv(DnStop[i] - call.start[i], call.step[i])
             /\ ret.alloc.shape[i] =
                  Cardinality({k \in 0..DnStop[i] : call.start[i] + k * call.step[i] < DnStop[i]})
        /\ Len(ret.alloc.data) = ret.alloc.shape[1] * ret.alloc.shape[2]
        /\ \A q \in 1..Len(ret.alloc.data) : ret.alloc.data[q] = 0
        /\ ret.grid.shape = ret.alloc.shape

C5_Witness ==
    /\ pc = "done"
    /\ call.op = "corrDn"
    /\ result = NoArray
    /\ image.shape = <<1, 3>>
    /\ call.stop = NoStop
    /\ call.start = <<0, 0>>
    /\ call.step = <<1, 2>>
    /\ ret.alloc.shape = <<1, 2>>
    /\ ret.grid.data # ret.alloc.data

\* C6: the grid upConv returns has the extent (stop[0], stop[1]), in every
\* mode, stop being the caller's, else step * image extent without a result
\* buffer, else the shape of the buffer.
C6_ReturnedExtent ==
    (pc = "done" /\ call.op = "upConv" /\ ret.status = "ok") =>
        ret.grid.shape = UpStop

\* C8: a window with a step that is not positive, or with a negative extent
\* stop - start, makes corrDn and upConv report an error and return no grid.
C8_InvalidWindow ==
    (/\ pc = "done" /\ call.op \in {"corrDn", "upConv"}
     /\ ret.status # "Exception"
     /\ \E i \in 1..2 :
          \/ call.step[i] <= 0
          \/ (IF call.op = "corrDn" THEN DnStop[i] ELSE UpStop[i]) < call.start[i]) =>
        ret.status # "ok" /\ ret.grid = NoArray

\* C9: in the modes reflect1, extend and repeat upConv hands an even-sized
\* filter to the kernel unpadded and raises no unsupported-filter error.
C9_ExemptModes ==
    (pc = "done" /\ call.op = "upConv"
     /\ call.edges \in {"reflect1", "extend", "repeat"}) =>
        /\ ret.status # "Exception"
        /\ ret.kfilt = [shape |-> <<FRows, FCols>>, data |-> filt.data]

C7_PointOp ==
    pc = "done" =>
        LET lut == table.lut.data
            n == Len(lut)
            inc == table.increment
            x(i) == table.origin + (i - 1) * inc
            cells == 1..Len(image.data)
            v(q) == image.data[q]
            r(q) == pt.grid.data[q]
        IN /\ pt.grid.shape = image.shape
           /\ \A q \in cells :
                /\ (x(1) <= v(q) /\ v(q) <= x(n)) =>
                      \E i \in 1..(n - 1) :
                         /\ x(i) <= v(q) /\ v(q) <= x(i + 1)
                         /\ (r(q) - lut[i]) * inc = (v(q) - x(i)) * (lut[i + 1] - lut[i])
                /\ v(q) < x(1) =>
                      (r(q) - lut[1]) * inc = (v(q) - x(1)) * (lut[2] - lut[1])
                /\ v(q) > x(n) =>
                      (r(q) - lut[n]) * inc = (v(q) - x(n)) * (lut[n] - lut[n - 1])
           /\ pt.warned = (table.warnings /\ \E q \in cells : v(q) < x(1) \/ v(q) > x(n))
           /\ (\A i \in 1..n : lut[i] = x(i)) =>
                 \A q \in cells : (x(1) <= v(q) /\ v(q) <= x(n)) => r(q) = v(q)
           /\ (lut = <<0, 1, 2, 3>> /\ table.origin = 0 /\ inc = 1) =>
                 \A q \in cells : v(q) = 5 => (r(q) = 5 /\ pt.warned = table.warnings)

C7_Witness ==
    /\ pc = "done"
    /\ table.lut.data = <<0, 1, 2, 3>>
    /\ table.origin = 0
    /\ table.increment = 1
    /\ table.warnings
    /\ image.data = <<1, 5>>
    /\ pt.grid.data = <<1, 5>>
    /\ pt.warned

====
